---------------------------- MODULE Spec2Model ----------------------------
(***************************************************************************)
(* A model of trajclus/apps/lsh_clustering.py: main() as a staged batch    *)
(* pipeline over the columns of flight_df.                                 *)
(*                                                                         *)
(*   SpecCorridor : lines 133-174, entrance trajectories to token lists    *)
(*   Spec         : lines 176-240, token lists to the rendered clusters    *)
(*   SpecReduce   : lines 195-210 alone, over arbitrary bucket columns     *)
(*                                                                         *)
(* The libraries in trajclus.lib (LSHClusteringLib, simplify_coordinator)  *)
(* are not part of the source at hand; they are modelled from their        *)
(* description.  sklearn's estimators are modelled by their contracts.     *)
(***************************************************************************)
EXTENDS Integers, Sequences, FiniteSets, TLC

VARIABLES
    pc,                     \* position of main()
    error,                  \* the exception that ended main(), or "none"
    algorithm,              \* detect_entrance_algo
    entrance_trajectories,  \* one raw point sequence per flight
    simplified_coords,      \* the simplified point sequence per flight
    point_coords,           \* the pooled simplified points
    reduced_groups,         \* corridor centers returned by detection
    classifier,             \* the fitted estimator returned by detection
    groups,                 \* flight_df['groups']: ids, then tokens
    hash,                   \* flight_df['hash']
    lsh_index,              \* the state of lsh_clustering
    duplicated,             \* flight_df['duplicated']
    buckets,                \* flight_df['buckets']
    unique_buckets,
    n_curve_per_bucket,
    cluster_labels,         \* flight_df['cluster']
    silhouette_val,
    plotted                 \* the arguments traffic_flight_plot received

vars == << pc, error, algorithm, entrance_trajectories, simplified_coords,
           point_coords, reduced_groups, classifier, groups, hash, lsh_index,
           duplicated, buckets, unique_buckets, n_curve_per_bucket,
           cluster_labels, silhouette_val, plotted >>

corridorVars == << algorithm, entrance_trajectories, simplified_coords,
                   point_coords, reduced_groups, classifier >>

lshVars == << hash, lsh_index, duplicated >>

\* Python's None, and a data-frame column that does not exist yet.
None == "None"
Absent == "absent"

Range(s) == { s[i] : i \in 1..Len(s) }

SetMin(S) == CHOOSE m \in S : \A x \in S : m <= x

---------------------------------------------------------------------------
(* Bounds of the model *)

\* longest duplicate-candidate column drawn in SpecReduce
MaxCurves == 13

\* most records drawn in Spec
MaxRecords == 7

\* most flights drawn in SpecCorridor
MaxFlights == 4

---------------------------------------------------------------------------
(* Entrance corridors and tokens, lines 133-174.  A point is a pair of     *)
(* integers on a small grid; great-circle and haversine distances are      *)
(* replaced by the squared Euclidean distance.                             *)

Dist2(p, q) == (p[1] - q[1]) * (p[1] - q[1]) + (p[2] - q[2]) * (p[2] - q[2])

\* twice the area of the triangle a, b, p
Cross(a, b, p) == (b[1] - a[1]) * (p[2] - a[2]) - (b[2] - a[2]) * (p[1] - a[1])

\* how far p lies from the segment a-b, on a scale that orders the points
\* of one curve; 0 exactly if p is on the line (or is a, when a = b)
Deviation(a, b, p) ==
    IF a = b THEN Dist2(a, p) ELSE Cross(a, b, p) * Cross(a, b, p)

\* simplify_coordinator: keep the endpoints and, while it deviates by more
\* than epsilon, the point of maximum deviation.  On the grid every
\* deviation other than 0 exceeds epsilon = 0.0001.
RECURSIVE Simplify(_)
Simplify(curve) ==
    IF Len(curve) <= 2 THEN curve
    ELSE LET a == curve[1]
             b == curve[Len(curve)]
             inner == 2..(Len(curve) - 1)
             dev(i) == Deviation(a, b, curve[i])
             far == CHOOSE i \in inner :
                        \A j \in inner : dev(i) > dev(j) \/ (dev(i) = dev(j) /\ i <= j)
         IN  IF dev(far) > 0
             THEN Simplify(SubSeq(curve, 1, far))
                      \o Tail(Simplify(SubSeq(curve, far, Len(curve))))
             ELSE << a, b >>

\* np.concatenate over a list of point arrays
RECURSIVE Concatenate(_)
Concatenate(arrays) ==
    IF arrays = << >> THEN << >>
    ELSE Head(arrays) \o Concatenate(Tail(arrays))

\* lines 139-146: the simplified entrance curves and their pooled points
SimplifyAndPool ==
    /\ pc = "simplify"
    /\ simplified_coords' =
          [ i \in 1..Len(entrance_trajectories) |-> Simplify(entrance_trajectories[i]) ]
    /\ point_coords' = Concatenate(simplified_coords')
    /\ pc' = "detect"
    /\ UNCHANGED << error, algorithm, entrance_trajectories, reduced_groups,
                    classifier, groups, lshVars, buckets, unique_buckets,
                    n_curve_per_bucket, cluster_labels, silhouette_val, plotted >>

\* the number of corridors k-means is asked for
estimated_n_entrance == 9

\* The center tuples KMeans.fit may return.  The fit itself is sklearn's;
\* what the pipeline relies on is that it returns k centers, so the model
\* lets it return either of two layouts of k centers over the grid.
KMeansFits(coords, k) ==
    { [ c \in 1..k |-> << (c - 1) \div 3, (c - 1) % 3 >> ],
      [ c \in 1..k |-> << (c - 1) % 3, (c - 1) \div 3 >> ] }

\* KMeans.predict for one point: the index of the nearest center
Nearest(centers, p) ==
    (CHOOSE c \in 1..Len(centers) :
        \A d \in 1..Len(centers) :
            \/ Dist2(centers[c], p) < Dist2(centers[d], p)
            \/ Dist2(centers[c], p) = Dist2(centers[d], p) /\ c <= d) - 1

\* KMeans.predict(X)
Predict(centers, X) == [ i \in 1..Len(X) |-> Nearest(centers, X[i]) ]

\* the squared distance within which two points are DBSCAN neighbours
EpsSq == 1

Near(p, q) == Dist2(p, q) <= EpsSq

\* the indices of X density-reachable from the indices S, min_samples = 1
RECURSIVE Reach(_, _)
Reach(S, X) ==
    LET T == S \cup { j \in 1..Len(X) : \E i \in S : Near(X[i], X[j]) }
    IN  IF T = S THEN S ELSE Reach(T, X)

\* DBSCAN(min_samples=1).fit(X).labels_: the connected components of the
\* neighbour relation, numbered from 0 in the order of their first point
DbscanLabels(X) ==
    [ i \in 1..Len(X) |->
        LET first(j) == SetMin(Reach({ j }, X))
        IN  Cardinality({ first(j) : j \in 1..Len(X) } \cap 1..(first(i) - 1)) ]

\* coords[cluster_labels == n]
ClusterPoints(X, labels, n) ==
    LET RECURSIVE Pick(_)
        Pick(i) == IF i > Len(X) THEN << >>
                   ELSE (IF labels[i] = n THEN << X[i] >> ELSE << >>) \o Pick(i + 1)
    IN  Pick(1)

\* get_centermost_point: the cluster's point nearest to its centroid, the
\* first one among equals
Centermost(cluster) ==
    LET n == Len(cluster)
        RECURSIVE Sum(_, _)
        Sum(i, k) == IF i > n THEN 0 ELSE cluster[i][k] + Sum(i + 1, k)
        off(i) == Dist2(<< n * cluster[i][1], n * cluster[i][2] >>, << Sum(1, 1), Sum(1, 2) >>)
        best == CHOOSE i \in 1..n : \A j \in 1..n : off(i) < off(j) \/ (off(i) = off(j) /\ i <= j)
    IN  cluster[best]

\* dbscan_clustering's centers, lines 43-48
DbscanCenters(X) ==
    LET labels == DbscanLabels(X)
        num_clusters == Cardinality(Range(labels))
    IN  [ n \in 1..num_clusters |-> Centermost(ClusterPoints(X, labels, n - 1)) ]

\* a DBSCAN estimator fitted on X
FittedDbscan(X) == [ kind |-> "dbscan", fitted_on |-> X, labels |-> DbscanLabels(X) ]

\* lines 148-152, detect_entrance_ways with its callees
DetectEntranceWays ==
    /\ pc = "detect"
    /\ \/ /\ algorithm \notin { "k-means", "dbscan" }
          /\ reduced_groups' = << >>
          /\ classifier' = [ kind |-> "False" ]
          /\ pc' = "classify"
          /\ error' = error
       \/ /\ algorithm = "k-means"
          /\ Len(point_coords) < estimated_n_entrance
          /\ pc' = "failed"
          /\ error' = "ValueError: KMeans.fit"
          /\ UNCHANGED << reduced_groups, classifier >>
       \/ /\ algorithm = "k-means"
          /\ Len(point_coords) >= estimated_n_entrance
          /\ \E centers \in KMeansFits(point_coords, estimated_n_entrance) :
                /\ reduced_groups' = centers
                /\ classifier' = [ kind |-> "k-means", centers |-> centers ]
          /\ pc' = "classify"
          /\ error' = error
       \/ /\ algorithm = "dbscan"
          /\ point_coords = << >>
          /\ pc' = "failed"
          /\ error' = "ValueError: DBSCAN.fit"
          /\ UNCHANGED << reduced_groups, classifier >>
       \/ /\ algorithm = "dbscan"
          /\ point_coords # << >>
          /\ reduced_groups' = DbscanCenters(point_coords)
          /\ classifier' = FittedDbscan(point_coords)
          /\ pc' = "classify"
          /\ error' = error
    /\ UNCHANGED << algorithm, entrance_trajectories, simplified_coords,
                    point_coords, groups, lshVars, buckets, unique_buckets,
                    n_curve_per_bucket, cluster_labels, silhouette_val, plotted >>

\* lines 157-159, one trajectory of the comprehension: fit_predict fits the
\* estimator anew on that trajectory and returns the labels of that fit
ClassifyDbscan ==
    /\ pc = "classify"
    /\ algorithm = "dbscan"
    /\ Len(groups) < Len(entrance_trajectories)
    /\ LET coord == entrance_trajectories[Len(groups) + 1]
       IN  \/ /\ coord = << >>
              /\ pc' = "failed"
              /\ error' = "ValueError: DBSCAN.fit_predict"
              /\ UNCHANGED << classifier, groups >>
           \/ /\ coord # << >>
              /\ classifier' = FittedDbscan(coord)
              /\ groups' = Append(groups, DbscanLabels(coord))
              /\ UNCHANGED << pc, error >>
    /\ UNCHANGED << algorithm, entrance_trajectories, simplified_coords,
                    point_coords, reduced_groups, lshVars, buckets,
                    unique_buckets, n_curve_per_bucket, cluster_labels,
                    silhouette_val, plotted >>

\* lines 163-166: the ids of one trajectory, or the sentinel
predict_or_sentinel(centers, traj) ==
    IF Len(traj) > 1 THEN Predict(centers, traj) ELSE << -1 >>

\* lines 160-166, one trajectory of the loop
ClassifyKMeans ==
    /\ pc = "classify"
    /\ algorithm = "k-means"
    /\ Len(groups) < Len(entrance_trajectories)
    /\ groups' = Append(groups,
                        predict_or_sentinel(classifier.centers,
                                            entrance_trajectories[Len(groups) + 1]))
    /\ UNCHANGED << pc, error, corridorVars, lshVars, buckets, unique_buckets,
                    n_curve_per_bucket, cluster_labels, silhouette_val, plotted >>

\* "G{}".format(c)
GroupLabel(c) == "G" \o ToString(c)

\* lines 167-174: the column is stored and its ids become labels; with no
\* branch taken for the algorithm the column was never stored
Tokenize ==
    /\ pc = "classify"
    /\ \/ /\ algorithm \in { "k-means", "dbscan" }
          /\ Len(groups) = Len(entrance_trajectories)
          /\ groups' = [ i \in 1..Len(groups) |->
                           [ j \in 1..Len(groups[i]) |-> GroupLabel(groups[i][j]) ] ]
          /\ pc' = "hash"
          /\ error' = error
       \/ /\ algorithm \notin { "k-means", "dbscan" }
          /\ pc' = "failed"
          /\ error' = "KeyError: groups"
          /\ groups' = groups
    /\ UNCHANGED << corridorVars, lshVars, buckets, unique_buckets,
                    n_curve_per_bucket, cluster_labels, silhouette_val, plotted >>

---------------------------------------------------------------------------
(* SpecCorridor: lines 133-174 over entrance trajectories *)

\* the values detect_entrance_algo is given
Algorithms == { "k-means", "dbscan", "hdbscan" }

\* the entrance trajectories a flight of SpecCorridor may have
TrajMenu ==
    { << >>,
      << << 1, 1 >> >>,
      << << 2, 2 >>, << 0, 0 >> >>,
      << << 0, 0 >>, << 1, 1 >>, << 2, 2 >> >>,
      << << 0, 0 >>, << 0, 2 >>, << 2, 2 >> >>,
      << << 2, 0 >>, << 1, 0 >>, << 1, 2 >> >> }

InitCorridor ==
    /\ pc = "simplify"
    /\ error = "none"
    /\ algorithm \in Algorithms
    /\ \E n \in 1..MaxFlights : entrance_trajectories \in [1..n -> TrajMenu]
    /\ simplified_coords = << >>
    /\ point_coords = << >>
    /\ reduced_groups = << >>
    /\ classifier = [ kind |-> "none" ]
    /\ groups = << >>
    /\ hash = Absent
    /\ lsh_index = {}
    /\ duplicated = Absent
    /\ buckets = Absent
    /\ unique_buckets = None
    /\ n_curve_per_bucket = None
    /\ cluster_labels = None
    /\ silhouette_val = None
    /\ plotted = << >>

NextCorridor ==
    \/ SimplifyAndPool
    \/ DetectEntranceWays
    \/ ClassifyDbscan
    \/ ClassifyKMeans
    \/ Tokenize

SpecCorridor == InitCorridor /\ [][NextCorridor]_vars

---------------------------------------------------------------------------
(* LSHClusteringLib, lines 177-188.  The library is modelled from its      *)
(* description: MinHash signatures over a fixed permutation family, an     *)
(* index of band hashes, and a query that returns the records sharing a    *)
(* band with the queried signature.                                        *)

\* the corridor labels a token list may hold
TokenUniverse == << "G1", "G2", "G3", "G4", "G9" >>

\* signature length (num_perm), scaled down
NumPerm == 4

\* rows of the signature per band
RowsPerBand == 2

\* modulus of the permutation family
Prime == 7

NumBands == NumPerm \div RowsPerBand

\* the base hash of a token: injective over the universe
BaseHash(t) == CHOOSE x \in 1..Len(TokenUniverse) : TokenUniverse[x] = t

\* the j-th permutation, (a*x + b) mod Prime with a # 0
Permute(j, x) == ((1 + (j % (Prime - 1))) * x + j) % Prime

\* signature(token_set): per permutation the minimum over the set's tokens
Signature(tokens) ==
    [ j \in 1..NumPerm |->
        IF tokens = << >> THEN Prime
        ELSE SetMin({ Permute(j, BaseHash(t)) : t \in Range(tokens) }) ]

\* the rows of signature sig that make up band b
BandKey(sig, b) ==
    [ r \in 1..RowsPerBand |-> sig[(b - 1) * RowsPerBand + r] ]

\* insert(record_id, signature): the record under each of its band hashes
IndexEntries(i, sig) ==
    { [ band |-> b, key |-> BandKey(sig, b), rec |-> i ] : b \in 1..NumBands }

\* the records sharing at least one band hash with sig
Candidates(index, sig) ==
    { e.rec : e \in { x \in index : x.key = BandKey(sig, x.band) } }

\* record i's id, flight_df['idx']
RecordId(i) == ToString(i - 1)

\* the ids of a set of records as a list, ascending or descending
RECURSIVE Ascending(_)
Ascending(S) ==
    IF S = {} THEN << >>
    ELSE LET m == SetMin(S) IN << RecordId(m) >> \o Ascending(S \ { m })

Reverse(s) == [ i \in 1..Len(s) |-> s[Len(s) + 1 - i] ]

\* The orders in which a query may list its result: the library builds the
\* result from a hash set, whose iteration order is not fixed by its
\* contents.
QueryOrders == { "ascending", "descending" }

Arrange(S, order) ==
    IF order = "ascending" THEN Ascending(S) ELSE Reverse(Ascending(S))

\* lines 177-184: every record's signature, each inserted under its id
ComputeMinHash ==
    /\ pc = "hash"
    /\ hash' = [ i \in 1..Len(groups) |-> Signature(groups[i]) ]
    /\ lsh_index' = UNION { IndexEntries(i, Signature(groups[i])) : i \in 1..Len(groups) }
    /\ pc' = "query"
    /\ UNCHANGED << error, corridorVars, groups, duplicated, buckets,
                    unique_buckets, n_curve_per_bucket, cluster_labels,
                    silhouette_val, plotted >>

\* lines 186-188: the query of every record's signature.  The result is a
\* function of the signature and the index; its order is the library's.
QueryDuplicated ==
    /\ pc = "query"
    /\ \E order \in [ Range(hash) -> QueryOrders ] :
          duplicated' =
              [ i \in 1..Len(hash) |->
                  Arrange(Candidates(lsh_index, hash[i]), order[hash[i]]) ]
    /\ pc' = "buckets"
    /\ UNCHANGED << error, corridorVars, groups, hash, lsh_index, buckets,
                    unique_buckets, n_curve_per_bucket, cluster_labels,
                    silhouette_val, plotted >>

---------------------------------------------------------------------------
(* Bucket keys, lines 191-193 *)

\* '_'.join(x): the ids in the order the list holds them, '_' between them
RECURSIVE JoinIds(_)
JoinIds(x) ==
    IF x = << >> THEN ""
    ELSE IF Len(x) = 1 THEN x[1]
    ELSE JoinIds(SubSeq(x, 1, Len(x) - 1)) \o "_" \o x[Len(x)]

\* flight_df['buckets'] = flight_df['duplicated'].apply('_'.join)
JoinBuckets ==
    /\ pc = "buckets"
    /\ buckets' = [ i \in 1..Len(duplicated) |-> JoinIds(duplicated[i]) ]
    /\ pc' = "reduce"
    /\ UNCHANGED << error, corridorVars, groups, lshVars, unique_buckets,
                    n_curve_per_bucket, cluster_labels, silhouette_val, plotted >>

---------------------------------------------------------------------------
(* Bucket-to-cluster reduction, lines 195-210 *)

\* the population at or under which a bucket is noise
MinCurves == 5

\* Series.unique(): the distinct values in first-occurrence order
RECURSIVE Unique(_)
UniqueKeepAll(s) == s
Unique(s) ==
    IF s = << >> THEN << >>
    ELSE LET init == Unique(SubSeq(s, 1, Len(s) - 1))
             last == s[Len(s)]
         IN  IF last \in Range(init) THEN init ELSE Append(init, last)

\* groupby('buckets').size().to_dict()
GroupSizes(col) ==
    [ k \in Range(col) |-> Cardinality({ i \in 1..Len(col) : col[i] = k }) ]

\* list.index(x): the 0-based position of the first occurrence
ListIndex(s, x) ==
    (CHOOSE i \in 1..Len(s) : s[i] = x /\ \A j \in 1..(i - 1) : s[j] # x) - 1

convert_off_by_one(bucket_label, uniq, sizes) ==
    IF sizes[bucket_label] < MinCurves THEN -1
    ELSE ListIndex(uniq, bucket_label)

convert_strict_above(bucket_label, uniq, sizes) ==
    IF sizes[bucket_label] <= MinCurves + 1 THEN -1
    ELSE ListIndex(uniq, bucket_label)

convert_to_cluster_number(bucket_label, uniq, sizes) ==
    IF sizes[bucket_label] <= MinCurves THEN -1
    ELSE ListIndex(uniq, bucket_label)

\* lines 195-210 as one step
ReduceBuckets ==
    /\ pc = "reduce"
    /\ LET uniq  == Unique(buckets)
           sizes == GroupSizes(buckets)
       IN  /\ unique_buckets' = uniq
           /\ n_curve_per_bucket' = sizes
           /\ cluster_labels' =
                [ i \in 1..Len(buckets) |->
                    convert_to_cluster_number(buckets[i], uniq, sizes) ]
    /\ pc' = "evaluate"
    /\ UNCHANGED << error, corridorVars, groups, lshVars, buckets,
                    silhouette_val, plotted >>

---------------------------------------------------------------------------
(* Evaluation and rendering, lines 219-240 *)

Distinct(col) == Cardinality(Range(col))

\* sklearn's silhouette_score: every label counts, -1 as any other, and the
\* score is defined for 2 to n_samples - 1 distinct labels
silhouette_defined(labels) ==
    1 < Distinct(labels) /\ Distinct(labels) < Len(labels)

\* lines 220-227: the distance matrix, then compute_silhouette_score; its
\* ValueError leaves main()
Evaluate ==
    /\ pc = "evaluate"
    /\ IF silhouette_defined(cluster_labels)
       THEN /\ silhouette_val' = "score"
            /\ pc' = "plot"
            /\ error' = error
       ELSE /\ silhouette_val' = None
            /\ pc' = "failed"
            /\ error' = "ValueError: silhouette_score"
    /\ UNCHANGED << corridorVars, groups, lshVars, buckets, unique_buckets,
                    n_curve_per_bucket, cluster_labels, plotted >>

\* lines 229-240: traffic_flight_plot receives the assignment
Plot ==
    /\ pc = "plot"
    /\ plotted' = << [ flight_ids |-> [ i \in 1..Len(cluster_labels) |-> RecordId(i) ],
                       clusters |-> cluster_labels,
                       subfix |-> silhouette_val,
                       group_clusters |-> reduced_groups ] >>
    /\ pc' = "done"
    /\ UNCHANGED << error, corridorVars, groups, lshVars, buckets,
                    unique_buckets, n_curve_per_bucket, cluster_labels,
                    silhouette_val >>

---------------------------------------------------------------------------
(* Spec: lines 176-240 over token columns *)

\* the token lists a record of Spec may carry
TokenMenu ==
    { << "G1", "G2", "G2", "G3" >>,
      << "G1", "G2", "G3", "G4" >>,
      << "G9" >> }

Init ==
    /\ pc = "hash"
    /\ error = "none"
    /\ algorithm = None
    /\ entrance_trajectories = << >>
    /\ simplified_coords = << >>
    /\ point_coords = << >>
    /\ reduced_groups = << >>
    /\ classifier = [ kind |-> "none" ]
    /\ \E n \in 1..MaxRecords : groups \in [1..n -> TokenMenu]
    /\ hash = Absent
    /\ lsh_index = {}
    /\ duplicated = Absent
    /\ buckets = Absent
    /\ unique_buckets = None
    /\ n_curve_per_bucket = None
    /\ cluster_labels = None
    /\ silhouette_val = None
    /\ plotted = << >>

Next ==
    \/ ComputeMinHash
    \/ QueryDuplicated
    \/ JoinBuckets
    \/ ReduceBuckets
    \/ Evaluate
    \/ Plot

Spec == Init /\ [][Next]_vars

---------------------------------------------------------------------------
(* SpecReduce: lines 191-210 over duplicate-candidate columns *)

\* The candidate lists a record of SpecReduce may carry.  A record's
\* candidates hold the record itself, so a list of m ids is carried by at
\* most m records.
CandidateLists ==
    { [ i \in 1..7 |-> ToString(i - 1) ],
      [ i \in 1..6 |-> ToString(i + 6) ],
      << "13" >> }

WithinCapacity(col) ==
    \A c \in CandidateLists :
        Cardinality({ i \in 1..Len(col) : col[i] = c }) <= Len(c)

InitReduce ==
    /\ pc = "buckets"
    /\ error = "none"
    /\ algorithm = None
    /\ entrance_trajectories = << >>
    /\ simplified_coords = << >>
    /\ point_coords = << >>
    /\ reduced_groups = << >>
    /\ classifier = [ kind |-> "none" ]
    /\ groups = << >>
    /\ hash = Absent
    /\ lsh_index = {}
    /\ \E n \in 1..MaxCurves : duplicated \in [1..n -> CandidateLists]
    /\ WithinCapacity(duplicated)
    /\ buckets = Absent
    /\ unique_buckets = None
    /\ n_curve_per_bucket = None
    /\ cluster_labels = None
    /\ silhouette_val = None
    /\ plotted = << >>

NextReduce == JoinBuckets \/ ReduceBuckets

SpecReduce == InitReduce /\ [][NextReduce]_vars

---------------------------------------------------------------------------
(* Claims about the reduction *)

\* the cluster column exists: main() is past line 210
Reduced ==
    \/ pc \in { "evaluate", "plot", "done" }
    \/ pc = "failed" /\ error = "ValueError: silhouette_score"

\* the records carrying bucket key k
Members(k) == { j \in 1..Len(buckets) : buckets[j] = k }

\* the position of the first record carrying bucket key k
FirstPos(k) == CHOOSE i \in Members(k) : \A j \in Members(k) : i <= j

Surviving == { k \in Range(buckets) : Cardinality(Members(k)) > MinCurves }

\* C1: a record whose bucket holds at most 5 records gets cluster id -1, and
\* a record whose bucket holds 6 or more records never gets -1.
C1_NoiseThreshold ==
    Reduced =>
        \A k \in Range(buckets) : \A i \in Members(k) :
            /\ Cardinality(Members(k)) <= 5 => cluster_labels[i] = -1
            /\ Cardinality(Members(k)) >= 6 => cluster_labels[i] # -1

\* a column holding a bucket of exactly 5 and a bucket of exactly 6 records
C1_Witness ==
    /\ Reduced
    /\ \E k1, k2 \in Range(buckets) :
          /\ Cardinality(Members(k1)) = 5 /\ Cardinality(Members(k2)) = 6
          /\ \A i \in Members(k1) : cluster_labels[i] = -1
          /\ \A i \in Members(k2) : cluster_labels[i] # -1

\* C2 as stated: the ids other than -1 are a bijection from the surviving
\* buckets onto 0..K-1, numbered by first occurrence among the surviving
\* buckets.
C2_BijectionOntoK ==
    Reduced =>
        \A k \in Surviving : \A i \in Members(k) :
            cluster_labels[i] =
                Cardinality({ k2 \in Surviving : FirstPos(k2) < FirstPos(k) })

\* C2 amended: a surviving bucket's id is its position among all distinct
\* buckets, noise buckets included, in first-occurrence order; so the ids
\* are distinct per surviving bucket, keep the first-occurrence order and
\* lie in 0..U-1 for U distinct buckets.
C2_IndexAmongAllBuckets ==
    Reduced =>
        /\ \A k \in Surviving : \A i \in Members(k) :
              /\ cluster_labels[i] =
                    Cardinality({ k2 \in Range(buckets) : FirstPos(k2) < FirstPos(k) })
              /\ cluster_labels[i] \in 0..(Cardinality(Range(buckets)) - 1)
        /\ \A k1, k2 \in Surviving :
              LET id1 == cluster_labels[FirstPos(k1)]
                  id2 == cluster_labels[FirstPos(k2)]
              IN  /\ (id1 = id2) <=> (k1 = k2)
                  /\ (id1 < id2) <=> (FirstPos(k1) < FirstPos(k2))

\* a noise bucket occurs before a surviving one, whose id is then >= K
C2_Witness ==
    /\ Reduced
    /\ \E k \in Surviving : \E n \in Range(buckets) \ Surviving :
          /\ FirstPos(n) < FirstPos(k)
          /\ cluster_labels[FirstPos(k)] >= Cardinality(Surviving)

---------------------------------------------------------------------------
(* Claims about the candidate sets, the bucket keys and the evaluation *)

Bucketed == pc \in { "reduce", "evaluate", "plot", "done" } \/ Reduced

\* C3: two records carry the same bucket key exactly if their candidate
\* sets are equal as sets, whatever the order the query listed them in.
C3_KeyIffCandidateSet ==
    Bucketed =>
        \A i, j \in 1..Len(buckets) :
            (buckets[i] = buckets[j]) <=> (Range(duplicated[i]) = Range(duplicated[j]))

\* the token set of record i
TokenSet(i) == Range(groups[i])

\* the records whose token set is that of record i
SameTokens(i) == { j \in 1..Len(groups) : TokenSet(j) = TokenSet(i) }

\* C4: the records of a group of more than 5 identical token sets share
\* their signature, their candidate set, which holds every member of the
\* group, their bucket key and a cluster id other than -1; a single record
\* whose tokens no other record shares gets cluster id -1.
C4_DuplicatesClusterTogether ==
    Reduced =>
        \A i \in 1..Len(groups) :
            /\ Cardinality(SameTokens(i)) > 5 =>
                  \A j \in SameTokens(i) :
                      /\ hash[j] = hash[i]
                      /\ Range(duplicated[j]) = Range(duplicated[i])
                      /\ { RecordId(m) : m \in SameTokens(i) } \subseteq Range(duplicated[j])
                      /\ buckets[j] = buckets[i]
                      /\ cluster_labels[j] = cluster_labels[i]
                      /\ cluster_labels[j] # -1
            /\ (\A j \in 1..Len(groups) : j # i => TokenSet(j) \cap TokenSet(i) = {})
                  => cluster_labels[i] = -1

\* six records of one token set and a seventh of a disjoint one, reduced
C4_Witness ==
    /\ Reduced
    /\ \E i, s \in 1..Len(groups) :
          /\ Cardinality(SameTokens(i)) = 6
          /\ \A j \in 1..Len(groups) : j # s => TokenSet(j) \cap TokenSet(s) = {}
          /\ cluster_labels[i] # -1
          /\ cluster_labels[s] = -1

\* the evaluation step has run
Evaluated == pc \in { "plot", "done" } \/ (pc = "failed" /\ error = "ValueError: silhouette_score")

\* the distinct cluster ids other than -1
NonNoiseIds == Range(cluster_labels) \ { -1 }

\* C7: the evaluation returns a score only for two or more distinct cluster
\* ids among the labels other than -1, and fails for fewer.
C7_SilhouetteNeedsTwoClusters ==
    Evaluated => ((pc \in { "plot", "done" }) <=> (Cardinality(NonNoiseIds) >= 2))

\* C8: a run that has computed the cluster assignment hands it unchanged to
\* the renderer, also when the evaluation fails.
C8_AssignmentDelivered ==
    (Reduced /\ pc \in { "done", "failed" }) =>
        /\ plotted # << >>
        /\ plotted[1].clusters = cluster_labels

---------------------------------------------------------------------------
(* Claims about corridor detection and tokens *)

Recognized == algorithm \in { "k-means", "dbscan" }

\* C5: with a selector other than 'k-means' and 'dbscan', detection fails
\* with InvalidAlgorithmError: it returns nothing and no later step runs.
C5_InvalidAlgorithmFails ==
    (~Recognized /\ pc \notin { "simplify", "detect" }) =>
        /\ pc = "failed"
        /\ error = "InvalidAlgorithmError"
        /\ classifier.kind = "none"

\* C6: under either algorithm a trajectory of fewer than 2 points gets the
\* sentinel id -1, classification does not raise, and the other
\* trajectories are classified.
C6_ShortTrajectorySentinel ==
    Recognized =>
        /\ error # "ValueError: DBSCAN.fit_predict"
        /\ pc = "classify" =>
              \A i \in 1..Len(groups) :
                  Len(entrance_trajectories[i]) < 2 => groups[i] = << -1 >>
        /\ pc = "hash" =>
              \A i \in 1..Len(groups) :
                  Len(entrance_trajectories[i]) < 2 => groups[i] = << "G-1" >>

\* the ids given so far agree on every point that two classified
\* trajectories of 2 or more points share
SamePointSameCorridor ==
    pc = "classify" =>
        \A i, j \in 1..Len(groups) :
            (Len(entrance_trajectories[i]) >= 2 /\ Len(entrance_trajectories[j]) >= 2) =>
                \A a \in 1..Len(entrance_trajectories[i]) :
                    \A b \in 1..Len(entrance_trajectories[j]) :
                        entrance_trajectories[i][a] = entrance_trajectories[j][b]
                            => groups[i][a] = groups[j][b]

\* C9: classification leaves the corridor set and its estimator as
\* detection produced them, and a point gets the same corridor id in
\* whichever trajectory it occurs.
C9_OneCorridorSet ==
    /\ []SamePointSameCorridor
    /\ [][pc = "classify" =>
             (classifier' = classifier /\ reduced_groups' = reduced_groups)]_vars

\* the 0-based position of the first occurrence of point p in X
PointIndex(X, p) == CHOOSE i \in 1..Len(X) : X[i] = p /\ \A j \in 1..(i - 1) : X[j] # p

\* the corridor of point p in the set detection produced
CorridorId(p) ==
    IF algorithm = "k-means" THEN Nearest(reduced_groups, p)
    ELSE DbscanLabels(point_coords)[PointIndex(point_coords, p)]

\* C10: a trajectory of 2 or more points has one label per point of its
\* simplified segment, in order, the i-th being 'G' and the corridor id of
\* the i-th simplified point.
C10_TokensFollowSimplifiedPoints ==
    (pc = "hash" /\ Recognized) =>
        \A i \in 1..Len(groups) :
            Len(entrance_trajectories[i]) >= 2 =>
                /\ Len(groups[i]) = Len(simplified_coords[i])
                /\ \A j \in 1..Len(simplified_coords[i]) :
                      groups[i][j] = GroupLabel(CorridorId(simplified_coords[i][j]))

===========================================================================
